---------------------------- MODULE Spec2Model ----------------------------
(***************************************************************************)
(* Model of the Clawcolator enforcement layer (src/src/clawcolator.rs).   *)
(*                                                                         *)
(* ClawcolatorEngine wraps the external RiskEngine and delegates every     *)
(* market decision to an untrusted OpenClawAgent.  The agent is modelled   *)
(* as pure nondeterminism: every agent operation may return any value of   *)
(* its result type, or an error.  The external RiskEngine (percolator.rs,  *)
(* not part of the modelled sources) is modelled at its boundary only:    *)
(* its ledger fields are read by build_context and its execute_trade may   *)
(* return any result and leave any ledger behind.                          *)
(*                                                                         *)
(* Integer widths are scaled down: i128/u128 are I128Bits wide and u64 is  *)
(* U64Bits wide, and the two protocol constants keep their order relative  *)
(* to the type ranges (MAX_POSITION_ABS < i128::MAX,                       *)
(* MAX_ORACLE_PRICE < u64::MAX).                                           *)
(***************************************************************************)
EXTENDS Integers, FiniteSets, Sequences, TLC

VARIABLES
    engine,          \* ClawcolatorEngine.engine  (the external RiskEngine)
    market_params,   \* ClawcolatorEngine.market_params
    shutdown,        \* ClawcolatorEngine.shutdown
    market_frozen,   \* ClawcolatorEngine.market_frozen
    last             \* record of the call that produced this state

vars == <<engine, market_params, shutdown, market_frozen, last>>

----------------------------------------------------------------------------
(* Integer types, scaled *)

I128Bits == 4
U64Bits == 3

I128_MIN == -(2 ^ (I128Bits - 1))
I128_MAX == (2 ^ (I128Bits - 1)) - 1
U128_MAX == (2 ^ I128Bits) - 1
U64_MAX == (2 ^ U64Bits) - 1

I128 == I128_MIN..I128_MAX
U128 == 0..U128_MAX
U64 == 0..U64_MAX

\* Protocol constants imported from the crate root (scaled).
MAX_POSITION_ABS == 4
MAX_ORACLE_PRICE == 5

----------------------------------------------------------------------------
(* Model bounds: the sample sets the state machine draws its inputs from *)

MaxTradeAbs == 2      \* largest size magnitude tried in call sequences
MaxLedger == 1        \* ledger snapshots the external engine may leave

----------------------------------------------------------------------------
(* Result<T>: "Ok" or a RiskError variant *)

RiskErrors == {"Unauthorized", "InvalidMatchingEngine", "Undercollateralized", "Overflow"}

Results == {"Ok"} \cup RiskErrors

\* Variant: the magnitude taken without the i128::MIN case
saturating_abs_i128_Unsaturated(val) ==
    IF val < 0 THEN -val ELSE val

\* saturating_abs_i128: |val|, with i128::MIN saturating to i128::MAX
saturating_abs_i128(val) ==
    IF val = I128_MIN THEN I128_MAX
    ELSE IF val < 0 THEN -val ELSE val

\* `x as u128` for an i128 x (two's complement reinterpretation)
AsU128(x) == IF x >= 0 THEN x ELSE x + (2 ^ I128Bits)

----------------------------------------------------------------------------
(* MarketParams *)

DefaultMarketParams ==
    [ max_leverage_bps          |-> 1000,
      max_position_size         |-> MAX_POSITION_ABS,
      spread_bps                |-> 10,
      funding_rate_bps_per_slot |-> 0,
      min_margin_bps            |-> 500,
      active_capital_ratio_bps  |-> 10000 ]

----------------------------------------------------------------------------
(* Trade validation *)

\* Variants of the validation with one plausible slip each

\* the direction check left out
ValidateTradeExecution_NoSignCheck(mp, price, exec_size, requested_size) ==
    IF price = 0 \/ price > MAX_ORACLE_PRICE THEN "InvalidMatchingEngine"
    ELSE IF exec_size = 0 THEN "Ok"
    ELSE IF exec_size = I128_MIN THEN "InvalidMatchingEngine"
    ELSE IF AsU128(saturating_abs_i128(exec_size)) > MAX_POSITION_ABS
         THEN "InvalidMatchingEngine"
    ELSE IF saturating_abs_i128(exec_size) > saturating_abs_i128(requested_size)
         THEN "InvalidMatchingEngine"
    ELSE IF AsU128(saturating_abs_i128(exec_size)) > mp.max_position_size
         THEN "Undercollateralized"
    ELSE "Ok"

\* the no-fill shortcut taken before the price check
ValidateTradeExecution_ZeroFirst(mp, price, exec_size, requested_size) ==
    IF exec_size = 0 THEN "Ok"
    ELSE IF price = 0 \/ price > MAX_ORACLE_PRICE THEN "InvalidMatchingEngine"
    ELSE IF exec_size = I128_MIN THEN "InvalidMatchingEngine"
    ELSE IF AsU128(saturating_abs_i128(exec_size)) > MAX_POSITION_ABS
         THEN "InvalidMatchingEngine"
    ELSE IF (exec_size > 0) # (requested_size > 0) THEN "InvalidMatchingEngine"
    ELSE IF saturating_abs_i128(exec_size) > saturating_abs_i128(requested_size)
         THEN "InvalidMatchingEngine"
    ELSE IF AsU128(saturating_abs_i128(exec_size)) > mp.max_position_size
         THEN "Undercollateralized"
    ELSE "Ok"

\* the check against market_params.max_position_size left out
ValidateTradeExecution_NoCapCheck(mp, price, exec_size, requested_size) ==
    IF price = 0 \/ price > MAX_ORACLE_PRICE THEN "InvalidMatchingEngine"
    ELSE IF exec_size = 0 THEN "Ok"
    ELSE IF exec_size = I128_MIN THEN "InvalidMatchingEngine"
    ELSE IF AsU128(saturating_abs_i128(exec_size)) > MAX_POSITION_ABS
         THEN "InvalidMatchingEngine"
    ELSE IF (exec_size > 0) # (requested_size > 0) THEN "InvalidMatchingEngine"
    ELSE IF saturating_abs_i128(exec_size) > saturating_abs_i128(requested_size)
         THEN "InvalidMatchingEngine"
    ELSE "Ok"

\* the no-fill shortcut written with <= instead of ==
ValidateTradeExecution_NonPositiveShortcut(mp, price, exec_size, requested_size) ==
    IF price = 0 \/ price > MAX_ORACLE_PRICE THEN "InvalidMatchingEngine"
    ELSE IF exec_size <= 0 THEN "Ok"
    ELSE IF exec_size = I128_MIN THEN "InvalidMatchingEngine"
    ELSE IF AsU128(saturating_abs_i128(exec_size)) > MAX_POSITION_ABS
         THEN "InvalidMatchingEngine"
    ELSE IF (exec_size > 0) # (requested_size > 0) THEN "InvalidMatchingEngine"
    ELSE IF saturating_abs_i128(exec_size) > saturating_abs_i128(requested_size)
         THEN "InvalidMatchingEngine"
    ELSE IF AsU128(saturating_abs_i128(exec_size)) > mp.max_position_size
         THEN "Undercollateralized"
    ELSE "Ok"

\* the market_params check reporting the wrong error kind
ValidateTradeExecution_CapErrorKind(mp, price, exec_size, requested_size) ==
    IF price = 0 \/ price > MAX_ORACLE_PRICE THEN "InvalidMatchingEngine"
    ELSE IF exec_size = 0 THEN "Ok"
    ELSE IF exec_size = I128_MIN THEN "InvalidMatchingEngine"
    ELSE IF AsU128(saturating_abs_i128(exec_size)) > MAX_POSITION_ABS
         THEN "InvalidMatchingEngine"
    ELSE IF (exec_size > 0) # (requested_size > 0) THEN "InvalidMatchingEngine"
    ELSE IF saturating_abs_i128(exec_size) > saturating_abs_i128(requested_size)
         THEN "InvalidMatchingEngine"
    ELSE IF AsU128(saturating_abs_i128(exec_size)) > mp.max_position_size
         THEN "InvalidMatchingEngine"
    ELSE "Ok"

\* the market_params check made before the partial-fill check
ValidateTradeExecution_CapBeforePartial(mp, price, exec_size, requested_size) ==
    IF price = 0 \/ price > MAX_ORACLE_PRICE THEN "InvalidMatchingEngine"
    ELSE IF exec_size = 0 THEN "Ok"
    ELSE IF exec_size = I128_MIN THEN "InvalidMatchingEngine"
    ELSE IF AsU128(saturating_abs_i128(exec_size)) > MAX_POSITION_ABS
         THEN "InvalidMatchingEngine"
    ELSE IF (exec_size > 0) # (requested_size > 0) THEN "InvalidMatchingEngine"
    ELSE IF AsU128(saturating_abs_i128(exec_size)) > mp.max_position_size
         THEN "Undercollateralized"
    ELSE IF saturating_abs_i128(exec_size) > saturating_abs_i128(requested_size)
         THEN "InvalidMatchingEngine"
    ELSE "Ok"

\* validate_trade_execution
ValidateTradeExecution(mp, price, exec_size, requested_size) ==
    IF price = 0 \/ price > MAX_ORACLE_PRICE THEN "InvalidMatchingEngine"
    ELSE IF exec_size = 0 THEN "Ok"
    ELSE IF exec_size = I128_MIN THEN "InvalidMatchingEngine"
    ELSE IF AsU128(saturating_abs_i128(exec_size)) > MAX_POSITION_ABS
         THEN "InvalidMatchingEngine"
    ELSE IF (exec_size > 0) # (requested_size > 0) THEN "InvalidMatchingEngine"
    ELSE IF saturating_abs_i128(exec_size) > saturating_abs_i128(requested_size)
         THEN "InvalidMatchingEngine"
    ELSE IF AsU128(saturating_abs_i128(exec_size)) > mp.max_position_size
         THEN "Undercollateralized"
    ELSE "Ok"

\* Variant: the execution derived from the arguments of the call
AgentMatcherExecuteMatch_FromArguments(matcher, lp_account_id, oracle_price, size) ==
    [price |-> oracle_price, size |-> size]

\* AgentMatcher::execute_match: returns the stored (price, size)
AgentMatcherExecuteMatch(matcher, lp_account_id, oracle_price, size) ==
    [price |-> matcher.price, size |-> matcher.size]

----------------------------------------------------------------------------
(* Market parameter validation *)

\* Variant: the leverage bound taken as exclusive
ValidateMarketParams_LeverageExclusive(eng, params) ==
    IF params.max_leverage_bps >= 10000 THEN "Overflow"
    ELSE IF params.max_position_size > MAX_POSITION_ABS THEN "Overflow"
    ELSE IF params.active_capital_ratio_bps > 10000 THEN "Overflow"
    ELSE IF params.min_margin_bps < eng.params.maintenance_margin_bps
         THEN "Undercollateralized"
    ELSE "Ok"

\* Variant: the margin check made first
ValidateMarketParams_MarginFirst(eng, params) ==
    IF params.min_margin_bps < eng.params.maintenance_margin_bps
    THEN "Undercollateralized"
    ELSE IF params.max_leverage_bps > 10000 THEN "Overflow"
    ELSE IF params.max_position_size > MAX_POSITION_ABS THEN "Overflow"
    ELSE IF params.active_capital_ratio_bps > 10000 THEN "Overflow"
    ELSE "Ok"

\* validate_market_params
ValidateMarketParams(eng, params) ==
    IF params.max_leverage_bps > 10000 THEN "Overflow"
    ELSE IF params.max_position_size > MAX_POSITION_ABS THEN "Overflow"
    ELSE IF params.active_capital_ratio_bps > 10000 THEN "Overflow"
    ELSE IF params.min_margin_bps < eng.params.maintenance_margin_bps
         THEN "Undercollateralized"
    ELSE "Ok"

----------------------------------------------------------------------------
(* The external RiskEngine, at its boundary *)

\* Base risk parameters a caller may construct the engine with (only the
\* maintenance margin is read by this layer).
BaseParams == { [maintenance_margin_bps |-> m] : m \in {500, 600} }

\* Ledger snapshots the external engine may hold; Ledger(0) is the empty ledger.
Ledger(k) ==
    [ current_slot        |-> (2 * k) % (U64_MAX + 1),
      last_crank_slot     |-> k % (U64_MAX + 1),
      vault               |-> (5 * k) % (U128_MAX + 1),
      insurance_balance   |-> k % (U128_MAX + 1),
      c_tot               |-> (4 * k) % (U128_MAX + 1),
      pnl_pos_tot         |-> (2 * k) % (U128_MAX + 1),
      total_open_interest |-> (3 * k) % (U128_MAX + 1) ]

Ledgers == { Ledger(k) : k \in 0..MaxLedger }

RiskEngineState(params, ledger) ==
    [ params              |-> params,
      current_slot        |-> ledger.current_slot,
      last_crank_slot     |-> ledger.last_crank_slot,
      vault               |-> ledger.vault,
      insurance_balance   |-> ledger.insurance_balance,
      c_tot               |-> ledger.c_tot,
      pnl_pos_tot         |-> ledger.pnl_pos_tot,
      total_open_interest |-> ledger.total_open_interest ]

\* RiskEngine::new / RiskEngine::init_in_place: the given parameters, some ledger
RiskEngineNew(base_params) == { RiskEngineState(base_params, l) : l \in Ledgers }

\* RiskEngine::execute_trade: any of the given results, any ledger afterwards,
\* same parameters
RiskEngineExecuteTrade(eng, results) ==
    { [result |-> r, engine |-> RiskEngineState(eng.params, l)] :
        r \in results, l \in Ledgers }

\* What a holder of &mut RiskEngine may leave behind
RiskEngineStates == UNION { RiskEngineNew(bp) : bp \in BaseParams }

----------------------------------------------------------------------------
(* AgentContext *)

\* Variant: total capital and total positive PnL read from each other's field
BuildContext_SwappedTotals(eng, oracle_price) ==
    [ current_slot        |-> eng.current_slot,
      oracle_price        |-> oracle_price,
      vault               |-> eng.vault,
      insurance_balance   |-> eng.insurance_balance,
      total_capital       |-> eng.pnl_pos_tot,
      total_positive_pnl  |-> eng.c_tot,
      total_open_interest |-> eng.total_open_interest,
      risk_params         |-> eng.params,
      risk_reduction_mode |-> FALSE,
      last_crank_slot     |-> eng.last_crank_slot ]

\* build_context
BuildContext(eng, oracle_price) ==
    [ current_slot        |-> eng.current_slot,
      oracle_price        |-> oracle_price,
      vault               |-> eng.vault,
      insurance_balance   |-> eng.insurance_balance,
      total_capital       |-> eng.c_tot,
      total_positive_pnl  |-> eng.pnl_pos_tot,
      total_open_interest |-> eng.total_open_interest,
      risk_params         |-> eng.params,
      risk_reduction_mode |-> FALSE,
      last_crank_slot     |-> eng.last_crank_slot ]

----------------------------------------------------------------------------
(* Records of a call, for stating properties *)

NoArgs == [user_idx |-> 0, oracle_price |-> 0, size |-> 0, now_slot |-> 0]

NoAgent == [op |-> "none"]

\* One call of an OpenClawAgent operation: the context it was given, what it returned
AgentCall(op, ctx, ret) == [op |-> op, ctx |-> ctx, ret |-> ret]

\* decide_trade also receives the TradeRequest
AgentTradeCall(ctx, request, ret) ==
    [op |-> "decide_trade", ctx |-> ctx, request |-> request, ret |-> ret]

NoSettle == [called |-> FALSE]

Settled(lp_idx, user_idx, now_slot, oracle_price, size, exec, result) ==
    [ called |-> TRUE, lp_idx |-> lp_idx, user_idx |-> user_idx,
      now_slot |-> now_slot, oracle_price |-> oracle_price, size |-> size,
      exec |-> exec, result |-> result ]

\* The record of one call: the operation, its arguments, the safety flags and
\* the position cap it found, the agent call it made, its return value, the settlement it reached
Call(op, args, asked, result, settle) ==
    [ op |-> op, args |-> args,
      pre |-> [market_frozen |-> market_frozen, shutdown |-> shutdown,
              max_position_size |-> market_params.max_position_size],
      agent |-> asked, result |-> result, settle |-> settle ]

----------------------------------------------------------------------------
(* What the untrusted agent may return *)

TradeRejectionReasons ==
    {"MarketConditions", "RiskLimit", "InsufficientLiquidity",
     "AnomalyDetected", "SystemShutdown", "Other"}

AnomalyTypes ==
    {"OracleManipulation", "HighVolatility", "UnusualPatterns",
     "LiquidityCrisis", "Other"}

\* Result<T>::Err
Errs(errors) == { [kind |-> "Err", err |-> e] : e \in errors }

\* Result<TradeDecision>::Ok, by variant
Accept(price, size) == [kind |-> "Accept", price |-> price, size |-> size]
Reject(reason) == [kind |-> "Reject", reason |-> reason]
RequestQuote(quote_price, max_size) ==
    [kind |-> "RequestQuote", quote_price |-> quote_price, max_size |-> max_size]

Accepts(prices, sizes) == { Accept(p, s) : p \in prices, s \in sizes }
Rejects(reasons) == { Reject(r) : r \in reasons }
Quotes(prices, sizes) == { RequestQuote(p, s) : p \in prices, s \in sizes }

\* Result<MarketParams>::Ok
Proposals(params) == { [kind |-> "Params", params |-> p] : p \in params }

\* Option<u128>
None == [some |-> FALSE]
Some(v) == [some |-> TRUE, value |-> v]

AnomalyActions(limits) ==
    [ freeze_market     : BOOLEAN,
      reduce_limits     : {None} \cup { Some(v) : v \in limits },
      stop_trading      : BOOLEAN,
      initiate_shutdown : BOOLEAN ]

\* Result<AnomalyResponse>::Ok
Anomalies(types, limits) ==
    { [kind |-> "Anomaly", anomaly_type |-> t, severity_bps |-> 5000, actions |-> a] :
        t \in types, a \in AnomalyActions(limits) }

\* Result<bool>::Ok
Bools == { [kind |-> "Bool", value |-> b] : b \in BOOLEAN }

\* An OpenClawAgent, as the set of values each of its operations may return.
\* SeqAgent is the policy used in call sequences, WideAgent the one used for a
\* single call over the whole range of the result types.
SeqSizes == -MaxTradeAbs..MaxTradeAbs
SeqPrices == {0, 1}
SeqLimits == {0, 1, MAX_POSITION_ABS, MAX_POSITION_ABS + 1}
SeqErrors == {"Unauthorized", "Overflow"}

SeqProposals ==
    [ max_leverage_bps          : {10000, 10001},
      max_position_size         : {1, MAX_POSITION_ABS, MAX_POSITION_ABS + 1},
      spread_bps                : {20},
      funding_rate_bps_per_slot : {-1},
      min_margin_bps            : {499, 600},
      active_capital_ratio_bps  : {8000, 10001} ]

SeqAgent ==
    [ decide_trade      |-> Accepts(SeqPrices, SeqSizes) \cup Rejects({"RiskLimit"})
                            \cup Quotes({1}, {1}) \cup Errs(SeqErrors),
      get_market_params |-> Proposals(SeqProposals) \cup Errs(SeqErrors),
      detect_anomalies  |-> Anomalies({"LiquidityCrisis"}, SeqLimits) \cup Errs(SeqErrors),
      should_shutdown   |-> Bools \cup Errs(SeqErrors) ]

\* The surroundings of a trade: the agent, and the results the external engine's
\* settlement may give
SeqEnv == [agent |-> SeqAgent, settle_results |-> {"Ok", "Undercollateralized"}]

WideProposals ==
    [ max_leverage_bps          : {1000, 10000, 10001, 15000},
      max_position_size         : U128,
      spread_bps                : {0, 10, 20},
      funding_rate_bps_per_slot : {-1, 0, 1},
      min_margin_bps            : {0, 499, 500, 599, 600, 601},
      active_capital_ratio_bps  : {0, 8000, 10000, 10001} ]

WideAgent ==
    [ decide_trade      |-> Accepts(U64, I128) \cup Rejects(TradeRejectionReasons)
                            \cup Quotes(U64, I128) \cup Errs(RiskErrors),
      get_market_params |-> Proposals(WideProposals) \cup Errs(RiskErrors),
      detect_anomalies  |-> Anomalies(AnomalyTypes, U128) \cup Errs(RiskErrors),
      should_shutdown   |-> Bools \cup Errs(RiskErrors) ]

WideEnv == [agent |-> WideAgent, settle_results |-> Results]

----------------------------------------------------------------------------
(* ClawcolatorEngine *)

\* Variant: an engine constructed frozen
New_Frozen(base_params) ==
    { [ engine        |-> e,
        market_params |-> DefaultMarketParams,
        shutdown      |-> FALSE,
        market_frozen |-> TRUE ] : e \in RiskEngineNew(base_params) }

\* ClawcolatorEngine::new
New(base_params) ==
    { [ engine        |-> e,
        market_params |-> DefaultMarketParams,
        shutdown      |-> FALSE,
        market_frozen |-> FALSE ] : e \in RiskEngineNew(base_params) }

Init ==
    /\ \E bp \in BaseParams : \E st \in New(bp) :
          /\ engine = st.engine
          /\ market_params = st.market_params
          /\ shutdown = st.shutdown
          /\ market_frozen = st.market_frozen
    /\ last = [ op |-> "new", args |-> NoArgs,
                pre |-> [market_frozen |-> FALSE, shutdown |-> FALSE,
                        max_position_size |-> DefaultMarketParams.max_position_size],
                agent |-> NoAgent, result |-> "Ok", settle |-> NoSettle ]

\* Variants of the system-state check: one of the two flags not looked at
TradeGate_SkipFrozen(sd, frozen) ==
    IF sd THEN "Unauthorized" ELSE "Ok"

TradeGate_SkipShutdown(sd, frozen) ==
    IF frozen THEN "Unauthorized" ELSE "Ok"

\* execute_trade, step 1: the system-state check
TradeGate(sd, frozen) ==
    IF sd THEN "Unauthorized"
    ELSE IF frozen THEN "Unauthorized"
    ELSE "Ok"

\* Variants of the refusal: one arm returning Ok(()) instead of an error
DecisionRefusal_RejectOk(ret) ==
    IF ret.kind = "Reject" THEN "Ok" ELSE "Unauthorized"

DecisionRefusal_QuoteOk(ret) ==
    IF ret.kind = "Reject" THEN "Unauthorized" ELSE "Ok"

\* execute_trade, the Reject and RequestQuote arms of the match
DecisionRefusal(ret) ==
    IF ret.kind = "Reject" THEN "Unauthorized"
    ELSE "Unauthorized"

\* Variant of execute_trade: the agent's execution size handed to the external
\* engine as the size of the trade
ExecuteTrade_SettlesExecSize(env, user_idx, oracle_price, size, now_slot) ==
    LET args == [user_idx |-> user_idx, oracle_price |-> oracle_price,
                 size |-> size, now_slot |-> now_slot]
        gate == TradeGate(shutdown, market_frozen)
    IN
    IF gate # "Ok"
    THEN /\ last' = Call("execute_trade", args, NoAgent, gate, NoSettle)
         /\ UNCHANGED <<engine, market_params, shutdown, market_frozen>>
    ELSE \E ret \in env.agent.decide_trade :
        LET context == BuildContext(engine, oracle_price)
            request == [user_idx |-> user_idx, size |-> size, requested_price |-> None]
            asked   == AgentTradeCall(context, request, ret)
        IN
        IF ret.kind = "Err"
        THEN /\ last' = Call("execute_trade", args, asked, ret.err, NoSettle)
             /\ UNCHANGED <<engine, market_params, shutdown, market_frozen>>
        ELSE IF ret.kind = "Accept"
        THEN LET v == ValidateTradeExecution(market_params, ret.price, ret.size, size) IN
             IF v # "Ok"
             THEN /\ last' = Call("execute_trade", args, asked, v, NoSettle)
                  /\ UNCHANGED <<engine, market_params, shutdown, market_frozen>>
             ELSE LET matcher == [price |-> ret.price, size |-> ret.size]
                      lp_idx  == 0
                  IN \E out \in RiskEngineExecuteTrade(engine, env.settle_results) :
                        /\ engine' = out.engine
                        /\ last' = Call("execute_trade", args, asked, out.result,
                                        Settled(lp_idx, user_idx, now_slot, oracle_price, ret.size,
                                                AgentMatcherExecuteMatch(matcher, lp_idx, oracle_price, ret.size),
                                                out.result))
                        /\ UNCHANGED <<market_params, shutdown, market_frozen>>
        ELSE \* Reject, RequestQuote
             /\ last' = Call("execute_trade", args, asked, DecisionRefusal(ret), NoSettle)
             /\ UNCHANGED <<engine, market_params, shutdown, market_frozen>>

\* execute_trade
ExecuteTrade(env, user_idx, oracle_price, size, now_slot) ==
    LET args == [user_idx |-> user_idx, oracle_price |-> oracle_price,
                 size |-> size, now_slot |-> now_slot]
        gate == TradeGate(shutdown, market_frozen)
    IN
    IF gate # "Ok"
    THEN /\ last' = Call("execute_trade", args, NoAgent, gate, NoSettle)
         /\ UNCHANGED <<engine, market_params, shutdown, market_frozen>>
    ELSE \E ret \in env.agent.decide_trade :
        LET context == BuildContext(engine, oracle_price)
            request == [user_idx |-> user_idx, size |-> size, requested_price |-> None]
            asked   == AgentTradeCall(context, request, ret)
        IN
        IF ret.kind = "Err"
        THEN /\ last' = Call("execute_trade", args, asked, ret.err, NoSettle)
             /\ UNCHANGED <<engine, market_params, shutdown, market_frozen>>
        ELSE IF ret.kind = "Accept"
        THEN LET v == ValidateTradeExecution(market_params, ret.price, ret.size, size) IN
             IF v # "Ok"
             THEN /\ last' = Call("execute_trade", args, asked, v, NoSettle)
                  /\ UNCHANGED <<engine, market_params, shutdown, market_frozen>>
             ELSE LET matcher == [price |-> ret.price, size |-> ret.size]
                      lp_idx  == 0
                  IN \E out \in RiskEngineExecuteTrade(engine, env.settle_results) :
                        /\ engine' = out.engine
                        /\ last' = Call("execute_trade", args, asked, out.result,
                                        Settled(lp_idx, user_idx, now_slot, oracle_price, size,
                                                AgentMatcherExecuteMatch(matcher, lp_idx, oracle_price, size),
                                                out.result))
                        /\ UNCHANGED <<market_params, shutdown, market_frozen>>
        ELSE \* Reject, RequestQuote
             /\ last' = Call("execute_trade", args, asked, DecisionRefusal(ret), NoSettle)
             /\ UNCHANGED <<engine, market_params, shutdown, market_frozen>>

\* Variant of update_market_params: a proposal that fails validation freezes
\* the market
UpdateMarketParams_FreezeOnInvalid(agent) ==
    \E ret \in agent.get_market_params :
        LET context == BuildContext(engine, 0)
            asked   == AgentCall("get_market_params", context, ret)
        IN
        IF ret.kind = "Err"
        THEN /\ last' = Call("update_market_params", NoArgs, asked, ret.err, NoSettle)
             /\ UNCHANGED <<engine, market_params, shutdown, market_frozen>>
        ELSE LET v == ValidateMarketParams(engine, ret.params) IN
             IF v # "Ok"
             THEN /\ market_frozen' = TRUE
                  /\ last' = Call("update_market_params", NoArgs, asked, v, NoSettle)
                  /\ UNCHANGED <<engine, market_params, shutdown>>
             ELSE /\ market_params' = ret.params
                  /\ last' = Call("update_market_params", NoArgs, asked, "Ok", NoSettle)
                  /\ UNCHANGED <<engine, shutdown, market_frozen>>

\* Variant of update_market_params: refused while the engine is halted
UpdateMarketParams_Gated(agent) ==
    IF shutdown \/ market_frozen
    THEN /\ last' = Call("update_market_params", NoArgs, NoAgent, "Unauthorized", NoSettle)
         /\ UNCHANGED <<engine, market_params, shutdown, market_frozen>>
    ELSE
    \E ret \in agent.get_market_params :
        LET context == BuildContext(engine, 0)
            asked   == AgentCall("get_market_params", context, ret)
        IN
        IF ret.kind = "Err"
        THEN /\ last' = Call("update_market_params", NoArgs, asked, ret.err, NoSettle)
             /\ UNCHANGED <<engine, market_params, shutdown, market_frozen>>
        ELSE LET v == ValidateMarketParams(engine, ret.params) IN
             IF v # "Ok"
             THEN /\ last' = Call("update_market_params", NoArgs, asked, v, NoSettle)
                  /\ UNCHANGED <<engine, market_params, shutdown, market_frozen>>
             ELSE /\ market_params' = ret.params
                  /\ last' = Call("update_market_params", NoArgs, asked, "Ok", NoSettle)
                  /\ UNCHANGED <<engine, shutdown, market_frozen>>

\* Variant of update_market_params: a proposal never raises the position cap
UpdateMarketParams_KeepLowerCap(agent) ==
    \E ret \in agent.get_market_params :
        LET context == BuildContext(engine, 0)
            asked   == AgentCall("get_market_params", context, ret)
        IN
        IF ret.kind = "Err"
        THEN /\ last' = Call("update_market_params", NoArgs, asked, ret.err, NoSettle)
             /\ UNCHANGED <<engine, market_params, shutdown, market_frozen>>
        ELSE LET v == ValidateMarketParams(engine, ret.params) IN
             IF v # "Ok"
             THEN /\ last' = Call("update_market_params", NoArgs, asked, v, NoSettle)
                  /\ UNCHANGED <<engine, market_params, shutdown, market_frozen>>
             ELSE /\ market_params' =
                        [ret.params EXCEPT !.max_position_size =
                            IF @ > market_params.max_position_size
                            THEN market_params.max_position_size ELSE @]
                  /\ last' = Call("update_market_params", NoArgs, asked, "Ok", NoSettle)
                  /\ UNCHANGED <<engine, shutdown, market_frozen>>

\* Variant of update_market_params: an accepted proposal merged into the
\* current parameters, the spread being kept
UpdateMarketParams_KeepSpread(agent) ==
    \E ret \in agent.get_market_params :
        LET context == BuildContext(engine, 0)
            asked   == AgentCall("get_market_params", context, ret)
        IN
        IF ret.kind = "Err"
        THEN /\ last' = Call("update_market_params", NoArgs, asked, ret.err, NoSettle)
             /\ UNCHANGED <<engine, market_params, shutdown, market_frozen>>
        ELSE LET v == ValidateMarketParams(engine, ret.params) IN
             IF v # "Ok"
             THEN /\ last' = Call("update_market_params", NoArgs, asked, v, NoSettle)
                  /\ UNCHANGED <<engine, market_params, shutdown, market_frozen>>
             ELSE /\ market_params' = [ret.params EXCEPT !.spread_bps = market_params.spread_bps]
                  /\ last' = Call("update_market_params", NoArgs, asked, "Ok", NoSettle)
                  /\ UNCHANGED <<engine, shutdown, market_frozen>>

\* update_market_params
UpdateMarketParams(agent) ==
    \E ret \in agent.get_market_params :
        LET context == BuildContext(engine, 0)
            asked   == AgentCall("get_market_params", context, ret)
        IN
        IF ret.kind = "Err"
        THEN /\ last' = Call("update_market_params", NoArgs, asked, ret.err, NoSettle)
             /\ UNCHANGED <<engine, market_params, shutdown, market_frozen>>
        ELSE LET v == ValidateMarketParams(engine, ret.params) IN
             IF v # "Ok"
             THEN /\ last' = Call("update_market_params", NoArgs, asked, v, NoSettle)
                  /\ UNCHANGED <<engine, market_params, shutdown, market_frozen>>
             ELSE /\ market_params' = ret.params
                  /\ last' = Call("update_market_params", NoArgs, asked, "Ok", NoSettle)
                  /\ UNCHANGED <<engine, shutdown, market_frozen>>

\* Variant: the freeze flag assigned from the response instead of only set
ApplyAnomalyActions_AssignFrozen(frozen, sd, mp, actions) ==
    [ market_frozen |-> actions.freeze_market \/ actions.stop_trading,
      shutdown      |-> IF actions.initiate_shutdown THEN TRUE ELSE sd,
      market_params |-> IF actions.reduce_limits.some
                           /\ actions.reduce_limits.value <= MAX_POSITION_ABS
                        THEN [mp EXCEPT !.max_position_size = actions.reduce_limits.value]
                        ELSE mp ]

\* Variant: reduce_limits applied without comparing it to the protocol maximum
ApplyAnomalyActions_NoLimitCheck(frozen, sd, mp, actions) ==
    [ market_frozen |-> IF actions.freeze_market \/ actions.stop_trading THEN TRUE ELSE frozen,
      shutdown      |-> IF actions.initiate_shutdown THEN TRUE ELSE sd,
      market_params |-> IF actions.reduce_limits.some
                        THEN [mp EXCEPT !.max_position_size = actions.reduce_limits.value]
                        ELSE mp ]

\* Variant: the protocol maximum itself refused as a reduce_limits value
ApplyAnomalyActions_StrictLimit(frozen, sd, mp, actions) ==
    [ market_frozen |-> IF actions.freeze_market \/ actions.stop_trading THEN TRUE ELSE frozen,
      shutdown      |-> IF actions.initiate_shutdown THEN TRUE ELSE sd,
      market_params |-> IF actions.reduce_limits.some
                           /\ actions.reduce_limits.value < MAX_POSITION_ABS
                        THEN [mp EXCEPT !.max_position_size = actions.reduce_limits.value]
                        ELSE mp ]

\* Variant: freeze_market shutting the engine down as well
ApplyAnomalyActions_ShutdownOnFreeze(frozen, sd, mp, actions) ==
    [ market_frozen |-> IF actions.freeze_market \/ actions.stop_trading THEN TRUE ELSE frozen,
      shutdown      |-> IF actions.initiate_shutdown \/ actions.freeze_market THEN TRUE ELSE sd,
      market_params |-> IF actions.reduce_limits.some
                           /\ actions.reduce_limits.value <= MAX_POSITION_ABS
                        THEN [mp EXCEPT !.max_position_size = actions.reduce_limits.value]
                        ELSE mp ]

\* Variant: stop_trading not freezing the market
ApplyAnomalyActions_IgnoreStopTrading(frozen, sd, mp, actions) ==
    [ market_frozen |-> IF actions.freeze_market THEN TRUE ELSE frozen,
      shutdown      |-> IF actions.initiate_shutdown THEN TRUE ELSE sd,
      market_params |-> IF actions.reduce_limits.some
                           /\ actions.reduce_limits.value <= MAX_POSITION_ABS
                        THEN [mp EXCEPT !.max_position_size = actions.reduce_limits.value]
                        ELSE mp ]

\* check_anomalies: the state after applying the response's actions
ApplyAnomalyActions(frozen, sd, mp, actions) ==
    [ market_frozen |-> IF actions.freeze_market \/ actions.stop_trading THEN TRUE ELSE frozen,
      shutdown      |-> IF actions.initiate_shutdown THEN TRUE ELSE sd,
      market_params |-> IF actions.reduce_limits.some
                           /\ actions.reduce_limits.value <= MAX_POSITION_ABS
                        THEN [mp EXCEPT !.max_position_size = actions.reduce_limits.value]
                        ELSE mp ]

\* check_anomalies
CheckAnomalies(agent, oracle_price) ==
    \E ret \in agent.detect_anomalies :
        LET context == BuildContext(engine, oracle_price)
            asked   == AgentCall("detect_anomalies", context, ret)
            args    == [NoArgs EXCEPT !.oracle_price = oracle_price]
        IN
        IF ret.kind = "Err"
        THEN /\ last' = Call("check_anomalies", args, asked, ret.err, NoSettle)
             /\ UNCHANGED <<engine, market_params, shutdown, market_frozen>>
        ELSE LET st == ApplyAnomalyActions(market_frozen, shutdown, market_params, ret.actions) IN
             /\ market_frozen' = st.market_frozen
             /\ shutdown' = st.shutdown
             /\ market_params' = st.market_params
             /\ last' = Call("check_anomalies", args, asked, "Ok", NoSettle)
             /\ UNCHANGED engine

\* Variant: the shutdown flag assigned from the answer instead of only set
ApplyShouldShutdown_Assign(sd, should_shutdown) == should_shutdown

\* Variant: the agent's answer not acted on
ApplyShouldShutdown_Ignore(sd, should_shutdown) == sd

\* check_shutdown: the shutdown flag after the agent's answer
ApplyShouldShutdown(sd, should_shutdown) ==
    IF should_shutdown THEN TRUE ELSE sd

\* Variant of check_shutdown: an agent failure taken as the conservative
\* answer (shut down) instead of being returned
CheckShutdown_ErrShutsDown(agent, oracle_price) ==
    \E ret \in agent.should_shutdown :
        LET context == BuildContext(engine, oracle_price)
            asked   == AgentCall("should_shutdown", context, ret)
            args    == [NoArgs EXCEPT !.oracle_price = oracle_price]
        IN
        IF ret.kind = "Err"
        THEN /\ shutdown' = TRUE
             /\ last' = Call("check_shutdown", args, asked, ret.err, NoSettle)
             /\ UNCHANGED <<engine, market_params, market_frozen>>
        ELSE /\ shutdown' = ApplyShouldShutdown(shutdown, ret.value)
             /\ last' = Call("check_shutdown", args, asked, "Ok", NoSettle)
             /\ UNCHANGED <<engine, market_params, market_frozen>>

\* check_shutdown
CheckShutdown(agent, oracle_price) ==
    \E ret \in agent.should_shutdown :
        LET context == BuildContext(engine, oracle_price)
            asked   == AgentCall("should_shutdown", context, ret)
            args    == [NoArgs EXCEPT !.oracle_price = oracle_price]
        IN
        IF ret.kind = "Err"
        THEN /\ last' = Call("check_shutdown", args, asked, ret.err, NoSettle)
             /\ UNCHANGED <<engine, market_params, shutdown, market_frozen>>
        ELSE /\ shutdown' = ApplyShouldShutdown(shutdown, ret.value)
             /\ last' = Call("check_shutdown", args, asked, "Ok", NoSettle)
             /\ UNCHANGED <<engine, market_params, market_frozen>>

\* init_in_place
InitInPlace(base_params) ==
    /\ engine' \in RiskEngineNew(base_params)
    /\ market_params' = DefaultMarketParams
    /\ shutdown' = FALSE
    /\ market_frozen' = FALSE
    /\ last' = Call("init_in_place", NoArgs, NoAgent, "Ok", NoSettle)

\* Variant of build_context: the call advances the engine's clock
BuildContextCall_AdvancingSlot(oracle_price) ==
    /\ engine' = [engine EXCEPT !.current_slot = (engine.current_slot + 1) % (U64_MAX + 1)]
    /\ last' = Call("build_context", [NoArgs EXCEPT !.oracle_price = oracle_price],
                    AgentCall("none", BuildContext(engine, oracle_price), None),
                    "Ok", NoSettle)
    /\ UNCHANGED <<market_params, shutdown, market_frozen>>

\* build_context, called by an outside caller: the snapshot is the return value
BuildContextCall(oracle_price) ==
    /\ last' = Call("build_context", [NoArgs EXCEPT !.oracle_price = oracle_price],
                    AgentCall("none", BuildContext(engine, oracle_price), None),
                    "Ok", NoSettle)
    /\ UNCHANGED <<engine, market_params, shutdown, market_frozen>>

\* risk_engine: hands out a shared reference to the engine
RiskEngine ==
    /\ last' = Call("risk_engine", NoArgs, NoAgent, "Ok", NoSettle)
    /\ UNCHANGED <<engine, market_params, shutdown, market_frozen>>

\* risk_engine_mut: the holder of the mutable reference may leave any engine state
RiskEngineMut ==
    /\ engine' \in RiskEngineStates
    /\ last' = Call("risk_engine_mut", NoArgs, NoAgent, "Ok", NoSettle)
    /\ UNCHANGED <<market_params, shutdown, market_frozen>>

----------------------------------------------------------------------------
(* SimpleClawAgent, the sample policy *)

\* The fixed-point unit of oracle prices in the notional computation
\* (1_000_000 in the source), at the scale of this model's prices
ORACLE_PRICE_UNIT == 2

\* SimpleClawAgent::new
SimpleClawAgentNew(max_position_size, max_leverage_bps, spread_bps) ==
    [ max_position_size |-> max_position_size,
      max_leverage_bps  |-> max_leverage_bps,
      spread_bps        |-> spread_bps ]

\* `x as u64` for a u128 x
AsU64(x) == x % (U64_MAX + 1)

saturating_add_u64(a, b) == IF a + b > U64_MAX THEN U64_MAX ELSE a + b

saturating_sub_u64(a, b) == IF a - b < 0 THEN 0 ELSE a - b

\* The process aborted by an arithmetic overflow check
Panic == [kind |-> "Panic"]

\* i128::abs: overflows on i128::MIN, which panics where overflow checks are
\* compiled in and returns i128::MIN where they are not
I128AbsOutcomes(x) ==
    IF x = I128_MIN THEN {[panicked |-> TRUE, value |-> 0], [panicked |-> FALSE, value |-> I128_MIN]}
    ELSE {[panicked |-> FALSE, value |-> IF x < 0 THEN -x ELSE x]}

\* decide_trade, the spread: oracle_price * spread_bps / 10_000, in u128
SimpleSpreadAmount(oracle_price, spread_bps) == (oracle_price * spread_bps) \div 10000

\* Variant: no capital reported as a risk limit
SimpleDecideTradeFrom_ZeroCapitalRiskLimit(self, context, request, abs_size) ==
    IF abs_size > self.max_position_size THEN Reject("RiskLimit")
    ELSE IF ~(context.total_capital > 0) THEN Reject("RiskLimit")
    ELSE
    LET notional        == (abs_size * context.oracle_price) \div ORACLE_PRICE_UNIT
        leverage_bps    == (notional * 10000) \div context.total_capital
        spread_amount   == SimpleSpreadAmount(context.oracle_price, self.spread_bps)
        execution_price ==
            IF request.size > 0
            THEN saturating_add_u64(context.oracle_price, AsU64(spread_amount))
            ELSE saturating_sub_u64(context.oracle_price, AsU64(spread_amount))
    IN
    IF leverage_bps > self.max_leverage_bps THEN Reject("RiskLimit")
    ELSE IF execution_price = 0 \/ execution_price > MAX_ORACLE_PRICE
         THEN Reject("MarketConditions")
    ELSE Accept(execution_price, request.size)

\* Variant: the spread added whatever the direction of the trade
SimpleDecideTradeFrom_AlwaysAbove(self, context, request, abs_size) ==
    IF abs_size > self.max_position_size THEN Reject("RiskLimit")
    ELSE IF ~(context.total_capital > 0) THEN Reject("InsufficientLiquidity")
    ELSE
    LET notional        == (abs_size * context.oracle_price) \div ORACLE_PRICE_UNIT
        leverage_bps    == (notional * 10000) \div context.total_capital
        spread_amount   == SimpleSpreadAmount(context.oracle_price, self.spread_bps)
        execution_price == saturating_add_u64(context.oracle_price, AsU64(spread_amount))
    IN
    IF leverage_bps > self.max_leverage_bps THEN Reject("RiskLimit")
    ELSE IF execution_price = 0 \/ execution_price > MAX_ORACLE_PRICE
         THEN Reject("MarketConditions")
    ELSE Accept(execution_price, request.size)

\* decide_trade from the position-size check on, abs_size being the magnitude
\* computed from the request
SimpleDecideTradeFrom(self, context, request, abs_size) ==
    IF abs_size > self.max_position_size THEN Reject("RiskLimit")
    ELSE IF ~(context.total_capital > 0) THEN Reject("InsufficientLiquidity")
    ELSE
    LET notional        == (abs_size * context.oracle_price) \div ORACLE_PRICE_UNIT
        leverage_bps    == (notional * 10000) \div context.total_capital
        spread_amount   == SimpleSpreadAmount(context.oracle_price, self.spread_bps)
        execution_price ==
            IF request.size > 0
            THEN saturating_add_u64(context.oracle_price, AsU64(spread_amount))
            ELSE saturating_sub_u64(context.oracle_price, AsU64(spread_amount))
    IN
    IF leverage_bps > self.max_leverage_bps THEN Reject("RiskLimit")
    ELSE IF execution_price = 0 \/ execution_price > MAX_ORACLE_PRICE
         THEN Reject("MarketConditions")
    ELSE Accept(execution_price, request.size)

\* SimpleClawAgent::decide_trade: the outcomes a build of it can produce
SimpleClawAgentDecideTrade(self, context, request) ==
    IF context.risk_reduction_mode THEN {Reject("RiskLimit")}
    ELSE { IF a.panicked THEN Panic
           ELSE SimpleDecideTradeFrom(self, context, request, AsU128(a.value)) :
             a \in I128AbsOutcomes(request.size) }

\* One call of the sample policy's decide_trade, on a snapshot of the engine
\* in which the caller has set the total capital and the risk reduction flag
SimpleDecideTradeCall(self, oracle_price, total_capital, risk_reduction_mode, size) ==
    LET context == [BuildContext(engine, oracle_price) EXCEPT
                        !.total_capital = total_capital,
                        !.risk_reduction_mode = risk_reduction_mode]
        request == [user_idx |-> 0, size |-> size, requested_price |-> None]
        args    == [NoArgs EXCEPT !.oracle_price = oracle_price, !.size = size]
    IN \E ret \in SimpleClawAgentDecideTrade(self, context, request) :
          /\ last' = Call("SimpleClawAgent::decide_trade", args,
                          AgentTradeCall(context, request, ret) @@ [self |-> self],
                          IF ret.kind = "Panic" THEN "Panic" ELSE "Ok", NoSettle)
          /\ UNCHANGED <<engine, market_params, shutdown, market_frozen>>

\* Variant: a ratio of exactly 100 basis points shuts down too
SimpleClawAgentShouldShutdown_AtMost(self, context) ==
    LET insurance_ratio ==
            IF context.vault > 0
            THEN (context.insurance_balance * 10000) \div context.vault
            ELSE 0
    IN [kind |-> "Bool", value |-> insurance_ratio <= 100]

\* SimpleClawAgent::should_shutdown
SimpleClawAgentShouldShutdown(self, context) ==
    LET insurance_ratio ==
            IF context.vault > 0
            THEN (context.insurance_balance * 10000) \div context.vault
            ELSE 0
    IN [kind |-> "Bool", value |-> insurance_ratio < 100]

\* The sample policy as the agent of one engine call: what it returns on the
\* snapshot the engine builds for that call
SimpleClawAgentOn(self, context) ==
    [ should_shutdown |-> {SimpleClawAgentShouldShutdown(self, context)} ]

\* risk_engine_mut, used to set the vault and the insurance fund balance
FundEngine(vault, insurance_balance) ==
    /\ engine' = [engine EXCEPT !.vault = vault, !.insurance_balance = insurance_balance]
    /\ last' = Call("risk_engine_mut", NoArgs, NoAgent, "Ok", NoSettle)
    /\ UNCHANGED <<market_params, shutdown, market_frozen>>

----------------------------------------------------------------------------
(* Specifications *)

\* Arguments of the calls in call sequences
SeqUserIdxs == {1}
SeqOraclePrices == {1}
SeqSlots == {1}

\* Call sequences of the four decision-carrying operations
Next ==
    \/ \E u \in SeqUserIdxs, o \in SeqOraclePrices, s \in SeqSizes \cup {I128_MIN}, t \in SeqSlots :
          ExecuteTrade(SeqEnv, u, o, s, t)
    \/ UpdateMarketParams(SeqAgent)
    \/ \E o \in SeqOraclePrices : CheckAnomalies(SeqAgent, o)
    \/ \E o \in SeqOraclePrices : CheckShutdown(SeqAgent, o)

Spec == Init /\ [][Next]_vars

\* Call sequences of every public operation of ClawcolatorEngine
NextAll ==
    \/ Next
    \/ \E bp \in BaseParams : InitInPlace(bp)
    \/ \E o \in SeqPrices : BuildContextCall(o)
    \/ RiskEngine
    \/ RiskEngineMut

SpecAll == Init /\ [][NextAll]_vars

\* One trade over the whole range of sizes and agent decisions, issued right
\* after construction or right after one anomaly check (which may have lowered
\* the position cap or halted the market)
NextCall ==
    \/ /\ last.op = "new"
       /\ \E o \in SeqOraclePrices : CheckAnomalies(SeqAgent, o)
    \/ /\ last.op \in {"new", "check_anomalies"}
       /\ \E u \in SeqUserIdxs, o \in SeqOraclePrices, s \in I128, t \in SeqSlots :
             ExecuteTrade(WideEnv, u, o, s, t)

SpecCall == Init /\ [][NextCall]_vars

\* One parameter update over the whole range of proposals, on an engine
\* constructed with either maintenance margin
NextParams ==
    /\ last.op = "new"
    /\ UpdateMarketParams(WideAgent)

SpecParams == Init /\ [][NextParams]_vars

\* Configurations and inputs of the sample policy
SimplePositionSizes == {1, MAX_POSITION_ABS, U128_MAX}
SimpleLeverages == {1000, 10000}
SimpleSpreads == {0, 10, 2500, 5000, 10000, 20000}
SimpleCapitals == {0, 1, 10, U128_MAX}

SimpleAgents ==
    { SimpleClawAgentNew(m, l, sp) :
        m \in SimplePositionSizes, l \in SimpleLeverages, sp \in SimpleSpreads }

\* Vault and insurance fund balances, the amounts of the shutdown scenario
\* among them in units of ten
SimpleVaults == {0, 100, 101, 1000000}
SimpleInsurances == {0, 1, 5000, 100000}

\* One decision of the sample policy over the whole range of requests, or one
\* check_shutdown run with the sample policy on an engine whose funds were set
NextPolicy ==
    \/ /\ last.op = "new"
       /\ \E self \in SimpleAgents, o \in U64, c \in SimpleCapitals, r \in BOOLEAN, sz \in I128 :
             SimpleDecideTradeCall(self, o, c, r, sz)
    \/ /\ last.op = "new"
       /\ \E v \in SimpleVaults, i \in SimpleInsurances : FundEngine(v, i)
    \/ /\ last.op = "risk_engine_mut"
       /\ \E self \in SimpleAgents, o \in SeqPrices :
             CheckShutdown(SimpleClawAgentOn(self, BuildContext(engine, o)), o)

SpecPolicy == Init /\ [][NextPolicy]_vars

----------------------------------------------------------------------------
(* Vocabulary of the properties *)

Abs(x) == IF x < 0 THEN -x ELSE x
Sign(x) == IF x > 0 THEN 1 ELSE IF x < 0 THEN -1 ELSE 0

\* The call that produced this state was an execute_trade
TradeCall == last.op = "execute_trade"

\* ... in which the agent was asked and answered Accept
AcceptCall ==
    /\ TradeCall
    /\ last.agent.op = "decide_trade"
    /\ last.agent.ret.kind = "Accept"

\* ... and the Accept passed validation (settlement is reached exactly then)
ValidatedAccept == AcceptCall /\ last.settle.called

Halted == shutdown \/ market_frozen

----------------------------------------------------------------------------
(* Safety state *)

\* C1: an execute_trade issued while shutdown or frozen returns Unauthorized
\* without asking the agent and without reaching settlement, and leaves
\* frozen, shutdown and the market parameters as they were.
C1_HaltedTradeRefused ==
    [][ (Halted /\ last'.op = "execute_trade")
            => /\ last'.result = "Unauthorized"
               /\ last'.agent.op = "none"
               /\ ~last'.settle.called
               /\ UNCHANGED <<market_frozen, shutdown, market_params>> ]_vars

C1_Witness ==
    /\ TradeCall
    /\ market_frozen /\ ~shutdown
    /\ last.agent.op = "none"
    /\ last.result = "Unauthorized"

\* C2: over sequences of execute_trade, update_market_params, check_anomalies
\* and check_shutdown, a set frozen flag stays set and a set shutdown flag
\* stays set.
C2_FlagsMonotonic ==
    [][ (market_frozen => market_frozen') /\ (shutdown => shutdown') ]_vars

\* shutdown was set, and a later check_shutdown answered false
C2_Witness ==
    /\ shutdown
    /\ last.op = "check_shutdown"
    /\ last.result = "Ok"
    /\ ~last.agent.ret.value

PublicOps ==
    {"build_context", "execute_trade", "update_market_params", "check_anomalies",
     "check_shutdown", "init_in_place", "risk_engine", "risk_engine_mut"}

\* C3 as stated: no public operation, init_in_place included, changes frozen
\* or shutdown from true to false.
C3_NoPublicOpClears ==
    [][ last'.op \in PublicOps
            => /\ ~(market_frozen /\ ~market_frozen')
               /\ ~(shutdown /\ ~shutdown') ]_vars

\* C3 amended: every public operation other than init_in_place keeps a set
\* flag set; init_in_place re-initialises the engine and leaves both flags
\* false.
C3_OnlyInitInPlaceClears ==
    [][ /\ (last'.op \in PublicOps \ {"init_in_place"}
               => /\ ~(market_frozen /\ ~market_frozen')
                  /\ ~(shutdown /\ ~shutdown'))
        /\ (last'.op = "init_in_place" => ~market_frozen' /\ ~shutdown') ]_vars

\* init_in_place was called on a frozen, shut-down engine
C3_Witness ==
    /\ last.op = "init_in_place"
    /\ last.pre.market_frozen /\ last.pre.shutdown
    /\ ~market_frozen /\ ~shutdown

\* C4: once frozen or shutdown is set, every later execute_trade returns
\* Unauthorized and none reaches the external engine's settlement.
C4_NoSettlementAfterHalt ==
    [](Halted => [](TradeCall => last.result = "Unauthorized" /\ ~last.settle.called))

C4_Witness ==
    /\ TradeCall
    /\ shutdown /\ ~market_frozen
    /\ last.result = "Unauthorized"
    /\ ~last.settle.called

----------------------------------------------------------------------------
(* Trade validation *)

ExecPrice == last.agent.ret.price
ExecSize == last.agent.ret.size
RequestedSize == last.args.size

\* C5 as stated: every Accept that passes validation, an execution size of
\* zero included, has sign(exec_size) = sign(requested_size) and
\* |exec_size| <= |requested_size|.
C5_SignAndMagnitude ==
    ValidatedAccept
        => /\ Sign(ExecSize) = Sign(RequestedSize)
           /\ Abs(ExecSize) <= Abs(RequestedSize)

\* C5 amended: every Accept that passes validation has
\* |exec_size| <= |requested_size|, and sign(exec_size) = sign(requested_size)
\* unless exec_size is zero; a zero exec_size (no fill) passes whatever the
\* requested size is.
C5_SignUnlessNoFill ==
    ValidatedAccept
        => /\ Abs(ExecSize) <= Abs(RequestedSize)
           /\ (ExecSize # 0 => Sign(ExecSize) = Sign(RequestedSize))

\* a short request partially filled
C5_Witness ==
    /\ ValidatedAccept
    /\ RequestedSize < 0 /\ ExecSize < 0
    /\ Abs(ExecSize) < Abs(RequestedSize)

\* C6: every Accept that passes validation, one with execution size zero
\* included, has 0 < price <= MAX_ORACLE_PRICE.
C6_PriceBounds ==
    ValidatedAccept => (0 < ExecPrice /\ ExecPrice <= MAX_ORACLE_PRICE)

C6_Witness ==
    /\ ValidatedAccept
    /\ ExecSize = 0
    /\ ExecPrice = MAX_ORACLE_PRICE

\* C7: every Accept that passes validation has |exec_size| no larger than the
\* max_position_size the engine holds at that validation, whatever updates
\* and anomaly checks came before.
C7_WithinCurrentCap ==
    ValidatedAccept => Abs(ExecSize) <= market_params.max_position_size

\* a fill at the cap, after an update replaced the parameters and an anomaly
\* check lowered the cap
C7_Witness ==
    /\ ValidatedAccept
    /\ market_params.spread_bps # DefaultMarketParams.spread_bps
    /\ market_params.max_position_size = 1
    /\ Abs(ExecSize) = market_params.max_position_size
    /\ Abs(RequestedSize) > Abs(ExecSize)

\* C8: an Accept whose exec_size is i128::MIN or whose magnitude exceeds
\* MAX_POSITION_ABS never passes validation.
C8_UnrepresentableRejected ==
    (AcceptCall /\ (ExecSize = I128_MIN \/ Abs(ExecSize) > MAX_POSITION_ABS))
        => (~last.settle.called /\ last.result # "Ok")

C8_Witness ==
    /\ AcceptCall
    /\ ExecSize = I128_MIN /\ RequestedSize = I128_MIN
    /\ ExecPrice = 1
    /\ last.result = "InvalidMatchingEngine"

\* The failures the error taxonomy files under InvalidDecision
PriceOutOfBounds == ExecPrice = 0 \/ ExecPrice > MAX_ORACLE_PRICE

InvalidDecisionCase ==
    \/ PriceOutOfBounds
    \/ /\ ExecSize # 0
       /\ \/ ExecSize = I128_MIN
          \/ Abs(ExecSize) > MAX_POSITION_ABS
          \/ Sign(ExecSize) # Sign(RequestedSize)
          \/ Abs(ExecSize) > Abs(RequestedSize)

AboveCapCase == Abs(ExecSize) > market_params.max_position_size

\* C9: a validation failure is InvalidMatchingEngine when the price is out of
\* bounds or a nonzero exec_size is i128::MIN, above MAX_POSITION_ABS, of the
\* wrong sign or larger than requested; it is Undercollateralized when none of
\* these holds and the magnitude is above max_position_size; no validation
\* failure is any other error.
C9_ErrorKinds ==
    AcceptCall
        => /\ InvalidDecisionCase
                => (~last.settle.called /\ last.result = "InvalidMatchingEngine")
           /\ (~InvalidDecisionCase /\ AboveCapCase)
                => (~last.settle.called /\ last.result = "Undercollateralized")
           /\ ~last.settle.called
                => last.result \in {"InvalidMatchingEngine", "Undercollateralized"}

C9_Witness ==
    /\ AcceptCall
    /\ ~InvalidDecisionCase /\ AboveCapCase
    /\ last.result = "Undercollateralized"

\* C10: the checks decide in the order price, no-fill, i128::MIN, protocol
\* maximum, sign, requested magnitude, max_position_size: a bad price with
\* exec_size 0 is rejected; exec_size 0 with a good price passes for every
\* requested size and cap; a nonzero exec_size that fails an InvalidDecision
\* check and is also above the cap gets InvalidMatchingEngine.
C10_CheckOrder ==
    AcceptCall
        => /\ (PriceOutOfBounds /\ ExecSize = 0)
                => (~last.settle.called /\ last.result = "InvalidMatchingEngine")
           /\ (~PriceOutOfBounds /\ ExecSize = 0) => last.settle.called
           /\ (ExecSize # 0 /\ AboveCapCase /\ Abs(ExecSize) > Abs(RequestedSize))
                => (~last.settle.called /\ last.result = "InvalidMatchingEngine")

\* larger than requested and above the cap, with nothing else wrong
C10_Witness ==
    /\ AcceptCall
    /\ ~PriceOutOfBounds
    /\ ExecSize # 0 /\ ExecSize # I128_MIN
    /\ Abs(ExecSize) <= MAX_POSITION_ABS
    /\ Sign(ExecSize) = Sign(RequestedSize)
    /\ Abs(ExecSize) > Abs(RequestedSize)
    /\ AboveCapCase
    /\ last.result = "InvalidMatchingEngine"

----------------------------------------------------------------------------
(* Refused and failed decisions *)

\* The agent was asked for a trade decision in the call that produced this state
DecidedCall == TradeCall /\ last.agent.op = "decide_trade"

\* C11: when decide_trade returns Reject, with any reason, execute_trade
\* returns Unauthorized, does not reach settlement, and leaves frozen,
\* shutdown and the market parameters as they were.
C11_RejectRefused ==
    [][ (/\ last'.op = "execute_trade"
         /\ last'.agent.op = "decide_trade"
         /\ last'.agent.ret.kind = "Reject")
            => /\ last'.result = "Unauthorized"
               /\ ~last'.settle.called
               /\ UNCHANGED <<market_frozen, shutdown, market_params>> ]_vars

\* a Reject on a request that an Accept could have filled, after the cap was lowered
C11_Witness ==
    /\ DecidedCall
    /\ last.agent.ret.kind = "Reject"
    /\ last.agent.ret.reason = "InsufficientLiquidity"
    /\ market_params.max_position_size = 1
    /\ RequestedSize = 1
    /\ last.result = "Unauthorized"

\* C12: when decide_trade returns RequestQuote, whatever quote_price and
\* max_size are, execute_trade returns Unauthorized, does not reach
\* settlement, and changes no state.
C12_QuoteRefused ==
    [][ (/\ last'.op = "execute_trade"
         /\ last'.agent.op = "decide_trade"
         /\ last'.agent.ret.kind = "RequestQuote")
            => /\ last'.result = "Unauthorized"
               /\ ~last'.settle.called
               /\ UNCHANGED <<engine, market_frozen, shutdown, market_params>> ]_vars

\* a quote that, as an Accept, would have passed validation
C12_Witness ==
    /\ DecidedCall
    /\ last.agent.ret.kind = "RequestQuote"
    /\ last.agent.ret.quote_price = MAX_ORACLE_PRICE
    /\ last.agent.ret.max_size = RequestedSize
    /\ RequestedSize = -MAX_POSITION_ABS
    /\ last.result = "Unauthorized"

\* C13: when decide_trade itself fails, execute_trade returns what it returns
\* for a Reject decision (Unauthorized), whatever the agent's error was.
C13_AgentErrorLikeReject ==
    (DecidedCall /\ last.agent.ret.kind = "Err") => last.result = "Unauthorized"

\* C14: when the agent operation an engine operation calls returns an error,
\* the engine operation returns an error, reaches no settlement, and leaves
\* frozen, shutdown and the market parameters as they were.
C14_AgentErrorNoMutation ==
    [][ (last'.agent.op # "none" /\ last'.agent.ret.kind = "Err")
            => /\ last'.result # "Ok"
               /\ ~last'.settle.called
               /\ UNCHANGED <<market_frozen, shutdown, market_params>> ]_vars

\* each of the four agent operations failing, on an engine still running
C14_WitnessOf(op) ==
    /\ last.agent.op = op
    /\ last.agent.ret.kind = "Err"
    /\ last.result = "Overflow"
    /\ ~shutdown /\ ~market_frozen

C14_Witness == C14_WitnessOf("should_shutdown")

----------------------------------------------------------------------------
(* Market parameters *)

\* The four bounds of validate_market_params, on parameters p for engine eng
WithinHardBounds(p) ==
    /\ p.max_leverage_bps <= 10000
    /\ p.max_position_size <= MAX_POSITION_ABS
    /\ p.active_capital_ratio_bps <= 10000

MarginCovered(eng, p) == p.min_margin_bps >= eng.params.maintenance_margin_bps

\* The call that produced this state was an update_market_params in which the
\* agent proposed parameters
ProposalCall ==
    /\ last.op = "update_market_params"
    /\ last.agent.op = "get_market_params"
    /\ last.agent.ret.kind = "Params"

Proposed == last.agent.ret.params

\* C15: update_market_params accepts a proposal exactly when its leverage is
\* at most 10000, its position size at most MAX_POSITION_ABS, its active
\* capital ratio at most 10000 and its minimum margin at least the external
\* engine's maintenance margin; spread and funding rate play no part.
C15_AcceptedIffWithinBounds ==
    ProposalCall =>
        /\ last.result = "Ok" <=> (WithinHardBounds(Proposed) /\ MarginCovered(engine, Proposed))
        /\ last.result = "Ok" => market_params = Proposed

\* every bound met exactly, on an engine whose maintenance margin is not the
\* default one
C15_Witness ==
    /\ ProposalCall
    /\ Proposed.max_leverage_bps = 10000
    /\ Proposed.max_position_size = MAX_POSITION_ABS
    /\ Proposed.active_capital_ratio_bps = 10000
    /\ Proposed.min_margin_bps = 600
    /\ engine.params.maintenance_margin_bps = 600
    /\ Proposed.spread_bps = 20
    /\ Proposed.funding_rate_bps_per_slot = -1
    /\ last.result = "Ok"
    /\ market_params = Proposed

\* C16: a rejected update_market_params leaves all six fields of the market
\* parameters as they were; an accepted one makes all six equal the proposal.
C16_AtomicAndTotal ==
    [][ (/\ last'.op = "update_market_params"
         /\ last'.agent.ret.kind = "Params")
            => /\ last'.result # "Ok" => UNCHANGED market_params
               /\ last'.result = "Ok" => market_params' = last'.agent.ret.params ]_vars

\* an accepted proposal that differs from the parameters it replaces in every
\* field
C16_Witness ==
    /\ ProposalCall
    /\ last.result = "Ok"
    /\ market_params = Proposed
    /\ \A f \in DOMAIN Proposed : Proposed[f] # DefaultMarketParams[f]

\* C17: a proposal over a hard bound (leverage, position size, active capital
\* ratio) fails with Overflow, also when its minimum margin is too low as
\* well; one within the hard bounds whose minimum margin is below the
\* maintenance margin fails with Undercollateralized; the parameters stay as
\* they were in both cases.
C17_ParamErrorKinds ==
    [][ (/\ last'.op = "update_market_params"
         /\ last'.agent.ret.kind = "Params")
            => LET p == last'.agent.ret.params IN
               /\ ~WithinHardBounds(p)
                     => last'.result = "Overflow" /\ UNCHANGED market_params
               /\ (WithinHardBounds(p) /\ ~MarginCovered(engine, p))
                     => last'.result = "Undercollateralized" /\ UNCHANGED market_params ]_vars

\* leverage 15000 together with a minimum margin below the maintenance margin
C17_Witness ==
    /\ ProposalCall
    /\ Proposed.max_leverage_bps = 15000
    /\ Proposed.max_position_size <= MAX_POSITION_ABS
    /\ Proposed.active_capital_ratio_bps <= 10000
    /\ ~MarginCovered(engine, Proposed)
    /\ last.result = "Overflow"
    /\ market_params = DefaultMarketParams

\* C18: in every reachable state, from construction with any base risk
\* parameters on, the current market parameters are within the three hard
\* bounds and their minimum margin is at least the external engine's
\* maintenance margin.
C18_ParamsAlwaysValid ==
    WithinHardBounds(market_params) /\ MarginCovered(engine, market_params)

\* C19 as stated: the market parameters change only in an update_market_params
\* call whose proposal passed validation.
C19_OnlyValidatedUpdate ==
    [][ market_params' # market_params
            => /\ last'.op = "update_market_params"
               /\ last'.result = "Ok" ]_vars

\* C19: the market parameters change only (a) in an update_market_params call
\* whose proposal passed validation, to that proposal; (b) in a check_anomalies
\* call whose response carries reduce_limits with a value of at most
\* MAX_POSITION_ABS, and then only max_position_size changes, to that value;
\* (c) in init_in_place, to the defaults. execute_trade, check_shutdown,
\* build_context, risk_engine and risk_engine_mut leave them unchanged.
C19_WritersOfMarketParams ==
    [][ market_params' # market_params
            => \/ /\ last'.op = "update_market_params"
                  /\ last'.result = "Ok"
                  /\ ValidateMarketParams(engine, last'.agent.ret.params) = "Ok"
                  /\ market_params' = last'.agent.ret.params
               \/ /\ last'.op = "check_anomalies"
                  /\ last'.result = "Ok"
                  /\ last'.agent.ret.actions.reduce_limits.some
                  /\ last'.agent.ret.actions.reduce_limits.value <= MAX_POSITION_ABS
                  /\ market_params' =
                        [market_params EXCEPT
                            !.max_position_size = last'.agent.ret.actions.reduce_limits.value]
               \/ /\ last'.op = "init_in_place"
                  /\ market_params' = DefaultMarketParams ]_vars

\* an anomaly check lowered the position cap of parameters set by an update
C19_Witness ==
    /\ last.op = "check_anomalies"
    /\ last.result = "Ok"
    /\ last.agent.ret.actions.reduce_limits = Some(0)
    /\ market_params.max_position_size = 0
    /\ market_params.spread_bps = 20

\* C20: after a successful check_anomalies, frozen is true if the response
\* had stop_trading or freeze_market set, and is what it was before the call
\* if it had neither.
C20_FrozenAfterAnomalies ==
    (last.op = "check_anomalies" /\ last.result = "Ok") =>
        LET a == last.agent.ret.actions IN
        /\ (a.stop_trading \/ a.freeze_market) => market_frozen
        /\ ~(a.stop_trading \/ a.freeze_market) => market_frozen = last.pre.market_frozen

\* stop_trading alone froze a market that was not frozen
C20_Witness ==
    /\ last.op = "check_anomalies"
    /\ last.result = "Ok"
    /\ last.agent.ret.actions.stop_trading
    /\ ~last.agent.ret.actions.freeze_market
    /\ ~last.pre.market_frozen
    /\ market_frozen

----------------------------------------------------------------------------
(* Anomaly and shutdown responses *)

AnomalyCall == last.op = "check_anomalies" /\ last.result = "Ok"

ShutdownCall == last.op = "check_shutdown" /\ last.result = "Ok"

\* C21: a check_anomalies whose response has initiate_shutdown set, and a
\* check_shutdown whose agent answers true, leave shutdown true; without
\* initiate_shutdown, or on the answer false, shutdown is what it was before
\* the call; check_shutdown never changes frozen.
C21_ShutdownTransitions ==
    [][ /\ (last'.op = "check_anomalies" /\ last'.result = "Ok")
            => shutdown' = IF last'.agent.ret.actions.initiate_shutdown THEN TRUE ELSE shutdown
        /\ (last'.op = "check_shutdown" /\ last'.result = "Ok")
            => shutdown' = IF last'.agent.ret.value THEN TRUE ELSE shutdown
        /\ last'.op = "check_shutdown" => UNCHANGED market_frozen ]_vars

\* the answer true shut down an engine that was running and not frozen
C21_Witness ==
    /\ ShutdownCall
    /\ last.agent.ret.value
    /\ ~last.pre.shutdown
    /\ shutdown
    /\ ~market_frozen

\* C22: execute_trade and update_market_params never change frozen or
\* shutdown, whatever the agent returns and whether they succeed or fail.
C22_TradesAndUpdatesKeepFlags ==
    [][ last'.op \in {"execute_trade", "update_market_params"}
            => UNCHANGED <<market_frozen, shutdown>> ]_vars

\* an update refused for a proposal over a hard bound, the engine still running
C22_Witness ==
    /\ ProposalCall
    /\ ~WithinHardBounds(Proposed)
    /\ last.result = "Overflow"
    /\ ~market_frozen /\ ~shutdown

\* C23: check_anomalies writes a reduce_limits value v to max_position_size
\* exactly when v <= MAX_POSITION_ABS; a larger v is ignored, and the call
\* still returns Ok and still applies the freeze and shutdown flags of the
\* response; the other five fields of the market parameters never change.
C23_ReduceLimitsBounded ==
    [][ (last'.op = "check_anomalies" /\ last'.agent.ret.kind = "Anomaly")
            => LET a == last'.agent.ret.actions
                   written == a.reduce_limits.some /\ a.reduce_limits.value <= MAX_POSITION_ABS
               IN
               /\ last'.result = "Ok"
               /\ market_params'.max_position_size =
                     IF written THEN a.reduce_limits.value
                     ELSE market_params.max_position_size
               /\ market_params' =
                     [market_params EXCEPT
                         !.max_position_size = market_params'.max_position_size]
               /\ (a.freeze_market \/ a.stop_trading) => market_frozen'
               /\ a.initiate_shutdown => shutdown' ]_vars

\* a value above the protocol maximum ignored while the same response froze
\* and shut down the engine
C23_Witness ==
    /\ AnomalyCall
    /\ last.agent.ret.actions.reduce_limits = Some(MAX_POSITION_ABS + 1)
    /\ last.agent.ret.actions.freeze_market
    /\ last.agent.ret.actions.initiate_shutdown
    /\ ~last.pre.market_frozen /\ ~last.pre.shutdown
    /\ market_params.max_position_size = 1
    /\ market_frozen /\ shutdown

\* C24: after any check_anomalies call, max_position_size is less than or
\* equal to its value before the call.
C24_LimitsOnlyReduced ==
    [][ last'.op = "check_anomalies"
            => market_params'.max_position_size <= market_params.max_position_size ]_vars

----------------------------------------------------------------------------
(* Construction, snapshots, the execution adapter *)

\* C25: a newly constructed engine is neither frozen nor shut down and has the
\* default market parameters (leverage 1000, position size MAX_POSITION_ABS,
\* spread 10, funding rate 0, minimum margin 500, active capital ratio
\* 10000), and a trade issued right after construction reaches the agent.
C25_StartsNormal ==
    [][ last.op = "new"
            => /\ ~market_frozen /\ ~shutdown
               /\ market_params.max_leverage_bps = 1000
               /\ market_params.max_position_size = MAX_POSITION_ABS
               /\ market_params.spread_bps = 10
               /\ market_params.funding_rate_bps_per_slot = 0
               /\ market_params.min_margin_bps = 500
               /\ market_params.active_capital_ratio_bps = 10000
               /\ DOMAIN market_params = DOMAIN DefaultMarketParams
               /\ last'.op = "execute_trade" => last'.agent.op = "decide_trade" ]_vars

\* a trade of the largest size the default cap allows, settled on an engine
\* that still has its construction-time flags and parameters
C25_Witness ==
    /\ ValidatedAccept
    /\ ~last.pre.market_frozen /\ ~last.pre.shutdown
    /\ market_params = DefaultMarketParams
    /\ RequestedSize = MAX_POSITION_ABS
    /\ last.result = "Ok"

\* The call that produced this state handed out a snapshot to an outside caller
SnapshotCall == last.op = "build_context"

\* C26: build_context changes no engine state (ledger, flags, market
\* parameters), and two calls with the same oracle price and nothing in
\* between give identical snapshots.
C26_BuildContextPure ==
    [][ last'.op = "build_context"
            => /\ UNCHANGED <<engine, market_frozen, shutdown, market_params>>
               /\ (SnapshotCall /\ last.args.oracle_price = last'.args.oracle_price)
                     => last'.agent.ctx = last.agent.ctx ]_vars

\* a snapshot of a non-empty ledger
C26_Witness ==
    /\ SnapshotCall
    /\ engine.vault > 0
    /\ last.agent.ctx.vault = engine.vault
    /\ last.agent.ctx.oracle_price = 0

\* Operations that build a snapshot, for themselves or for the caller
SnapshotOps ==
    {"build_context", "update_market_params", "check_anomalies", "check_shutdown"}

\* C27: every snapshot has risk_reduction_mode false, the oracle price that
\* was supplied, and in each other field the external engine's value of that
\* field at the time of the call.
C27_SnapshotMatchesEngine ==
    [][ (\/ last'.op \in SnapshotOps
         \/ last'.op = "execute_trade" /\ last'.agent.op = "decide_trade")
            => LET ctx == last'.agent.ctx IN
               /\ ctx.risk_reduction_mode = FALSE
               /\ ctx.oracle_price = last'.args.oracle_price
               /\ ctx.current_slot = engine.current_slot
               /\ ctx.vault = engine.vault
               /\ ctx.insurance_balance = engine.insurance_balance
               /\ ctx.total_capital = engine.c_tot
               /\ ctx.total_positive_pnl = engine.pnl_pos_tot
               /\ ctx.total_open_interest = engine.total_open_interest
               /\ ctx.risk_params = engine.params
               /\ ctx.last_crank_slot = engine.last_crank_slot ]_vars

\* the snapshot given to decide_trade in a trade whose settlement then changed
\* the ledger
C27_Witness ==
    /\ ValidatedAccept
    /\ last.agent.ctx.total_capital > last.agent.ctx.total_positive_pnl
    /\ last.agent.ctx.total_positive_pnl > 0
    /\ engine.c_tot = 0
    /\ last.agent.ctx.risk_params.maintenance_margin_bps = 600

\* C28: the execution adapter returns exactly the (price, size) of the
\* validated Accept it was built from, in the call the engine makes and for
\* the extreme counterparty identities, oracle prices and sizes as well; it
\* never fails.
C28_AdapterPassThrough ==
    ValidatedAccept =>
        LET accepted == [price |-> ExecPrice, size |-> ExecSize] IN
        /\ last.settle.exec = accepted
        /\ \A lp \in {0, U64_MAX} :
           \A o \in {0, last.args.oracle_price, U64_MAX} :
           \A sz \in {I128_MIN, 0, RequestedSize, I128_MAX} :
              AgentMatcherExecuteMatch(accepted, lp, o, sz) = accepted

\* a partial fill at a price other than the oracle price
C28_Witness ==
    /\ ValidatedAccept
    /\ ExecPrice # last.args.oracle_price
    /\ ExecSize = 1
    /\ RequestedSize = MAX_POSITION_ABS
    /\ last.settle.exec = [price |-> ExecPrice, size |-> ExecSize]

----------------------------------------------------------------------------
(* The sample policy *)

\* The call that produced this state was a decide_trade of the sample policy
PolicyCall == last.op = "SimpleClawAgent::decide_trade"

PolicySelf == last.agent.self
PolicyContext == last.agent.ctx
PolicySize == last.agent.request.size
PolicyDecision == last.agent.ret

\* The leverage of the request, in basis points of the total capital
PolicyLeverageBps ==
    (((Abs(PolicySize) * PolicyContext.oracle_price) \div ORACLE_PRICE_UNIT) * 10000)
        \div PolicyContext.total_capital

\* The request is within the policy's position-size and leverage limits, the
\* total capital being positive
WithinPolicyLimits ==
    /\ Abs(PolicySize) <= PolicySelf.max_position_size
    /\ PolicyContext.total_capital > 0
    /\ PolicyLeverageBps <= PolicySelf.max_leverage_bps

\* The truncated oracle_price * spread_bps / 10000
PolicySpread == (PolicyContext.oracle_price * PolicySelf.spread_bps) \div 10000

PolicyQuote ==
    LET s == PolicySpread % (U64_MAX + 1)
        p == IF PolicySize > 0 THEN PolicyContext.oracle_price + s
             ELSE PolicyContext.oracle_price - s
    IN IF p > U64_MAX THEN U64_MAX ELSE IF p < 0 THEN 0 ELSE p

C30_OversizedRejected ==
    (PolicyCall /\ Abs(PolicySize) > PolicySelf.max_position_size)
        => PolicyDecision = Reject("RiskLimit")

InsuranceRatioBps(context) ==
    IF context.vault = 0 THEN 0
    ELSE (context.insurance_balance * 10000) \div context.vault

----------------------------------------------------------------------------
(* The whole of a call, and sequences of calls *)

\* C33: in one execute_trade the agent is asked only after the gate let the
\* call through, and the external engine's execute_trade is reached only for
\* an Accept that passed validation, with counterparty index 0, the caller's
\* account index, time-step, oracle price and requested size, and a matcher
\* giving the agent's (price, exec_size); what the external engine returns is
\* what the caller gets.
C33_OrderWithinTrade ==
    TradeCall =>
        /\ last.agent.op = "decide_trade"
              => ~last.pre.market_frozen /\ ~last.pre.shutdown
        /\ last.settle.called
              => /\ AcceptCall
                 /\ ValidateTradeExecution([max_position_size |-> last.pre.max_position_size],
                                           ExecPrice, ExecSize, RequestedSize) = "Ok"
                 /\ last.settle.lp_idx = 0
                 /\ last.settle.user_idx = last.args.user_idx
                 /\ last.settle.now_slot = last.args.now_slot
                 /\ last.settle.oracle_price = last.args.oracle_price
                 /\ last.settle.size = RequestedSize
                 /\ last.settle.exec = [price |-> ExecPrice, size |-> ExecSize]
                 /\ last.result = last.settle.result
        /\ ~last.settle.called => last.result # "Ok"

\* a partial fill settled with the requested size, the external engine's
\* error returned to the caller
C33_Witness ==
    /\ ValidatedAccept
    /\ RequestedSize = -MAX_POSITION_ABS
    /\ ExecSize = -1
    /\ last.settle.size = RequestedSize
    /\ last.settle.exec.size = ExecSize
    /\ last.settle.lp_idx # last.settle.user_idx
    /\ last.settle.result = "Undercollateralized"
    /\ last.result = "Undercollateralized"

\* C34 as stated: shutdown is set only in a state where frozen is set, and
\* once shutdown is set no operation changes either flag.
C34_ShutdownFollowsFrozen ==
    [][ /\ (~shutdown /\ shutdown') => market_frozen
        /\ shutdown => UNCHANGED <<shutdown, market_frozen>> ]_vars

\* C34: over sequences of execute_trade, update_market_params, check_anomalies
\* and check_shutdown, shutdown is set by an anomaly response with
\* initiate_shutdown or by a true should_shutdown answer, whether frozen is
\* set or not; once set it stays set; frozen can still go from false to true
\* afterwards, by an anomaly response with freeze_market or stop_trading, and
\* never back.
C34_ShutdownStaysSet ==
    [][ /\ (~shutdown /\ shutdown')
              => \/ /\ last'.op = "check_anomalies"
                    /\ last'.agent.ret.actions.initiate_shutdown
                 \/ /\ last'.op = "check_shutdown"
                    /\ last'.agent.ret.value
        /\ shutdown => shutdown'
        /\ (shutdown /\ market_frozen' # market_frozen)
              => /\ market_frozen'
                 /\ last'.op = "check_anomalies"
                 /\ \/ last'.agent.ret.actions.freeze_market
                    \/ last'.agent.ret.actions.stop_trading ]_vars

\* an engine shut down while not frozen, and frozen afterwards
C34_Witness ==
    /\ AnomalyCall
    /\ last.pre.shutdown /\ ~last.pre.market_frozen
    /\ shutdown /\ market_frozen

\* C35: update_market_params, check_anomalies and check_shutdown called while
\* frozen or shutdown is set still ask the agent, and still replace the market
\* parameters by a valid proposal, apply a reduce_limits value of at most
\* MAX_POSITION_ABS and the flags of an anomaly response, and set shutdown on
\* the answer true.
C35_MaintenanceNotGated ==
    [][ (Halted /\ last'.op \in {"update_market_params", "check_anomalies", "check_shutdown"})
            => LET ret == last'.agent.ret IN
               /\ last'.agent.op # "none"
               /\ (ret.kind = "Params" /\ ValidateMarketParams(engine, ret.params) = "Ok")
                     => (last'.result = "Ok" /\ market_params' = ret.params)
               /\ ret.kind = "Anomaly"
                     => /\ last'.result = "Ok"
                        /\ (ret.actions.reduce_limits.some
                              /\ ret.actions.reduce_limits.value <= MAX_POSITION_ABS)
                              => market_params'.max_position_size = ret.actions.reduce_limits.value
                        /\ (ret.actions.freeze_market \/ ret.actions.stop_trading) => market_frozen'
                        /\ ret.actions.initiate_shutdown => shutdown'
               /\ ret.kind = "Bool"
                     => (last'.result = "Ok" /\ (ret.value => shutdown')) ]_vars

\* the parameters replaced on an engine both frozen and shut down
C35_Witness ==
    /\ ProposalCall
    /\ last.pre.market_frozen /\ last.pre.shutdown
    /\ last.result = "Ok"
    /\ market_params = Proposed
    /\ Proposed.max_position_size # last.pre.max_position_size

\* C36: a cap L set by check_anomalies bounds the validated trades while it is
\* the cap (execute_trade and check_shutdown leave it in place, a failed
\* update too); a successful update_market_params replaces it by the proposed
\* max_position_size, larger than L or not.
C36_CapUntilNextUpdate ==
    [][ LET cap == market_params.max_position_size IN
        /\ (/\ last'.op = "check_anomalies"
            /\ last'.result = "Ok"
            /\ last'.agent.ret.actions.reduce_limits.some
            /\ last'.agent.ret.actions.reduce_limits.value <= MAX_POSITION_ABS)
              => market_params'.max_position_size = last'.agent.ret.actions.reduce_limits.value
        /\ (last'.op = "execute_trade" /\ last'.settle.called)
              => Abs(last'.agent.ret.size) <= cap
        /\ last'.op \in {"execute_trade", "check_shutdown"}
              => market_params'.max_position_size = cap
        /\ last'.op = "update_market_params"
              => market_params'.max_position_size =
                    IF last'.result = "Ok" THEN last'.agent.ret.params.max_position_size
                    ELSE cap ]_vars

\* an update that raised a cap of 0, which only an anomaly response can have
\* set, to the protocol maximum
C36_Witness ==
    /\ ProposalCall
    /\ last.result = "Ok"
    /\ last.pre.max_position_size = 0
    /\ market_params.max_position_size = MAX_POSITION_ABS

\* C37: validation gives Ok or a RiskError for every price, exec_size and
\* requested_size; the magnitudes it computes are representable, that of
\* i128::MIN being i128::MAX; a requested size of zero lets only an execution
\* size of zero through.
C37_ValidationTotal ==
    AcceptCall =>
        /\ ValidateTradeExecution([max_position_size |-> last.pre.max_position_size],
                                  ExecPrice, ExecSize, RequestedSize)
              \in {"Ok", "InvalidMatchingEngine", "Undercollateralized"}
        /\ last.result \in Results
        /\ saturating_abs_i128(ExecSize) \in 0..I128_MAX
        /\ saturating_abs_i128(RequestedSize) \in 0..I128_MAX
        /\ RequestedSize = I128_MIN => saturating_abs_i128(RequestedSize) = I128_MAX
        /\ (RequestedSize = 0 /\ last.settle.called) => ExecSize = 0
        /\ (RequestedSize = 0 /\ ExecSize # 0) => last.result = "InvalidMatchingEngine"

\* the largest short the protocol allows filled against a request of i128::MIN
C37_Witness ==
    /\ ValidatedAccept
    /\ RequestedSize = I128_MIN
    /\ ExecSize = -MAX_POSITION_ABS
    /\ last.result = "Ok"

============================================================================
